---- MODULE Spec2Model ----
(***************************************************************************)
(* A model of GWFish/modules/fishermatrix.py: the finite-difference        *)
(* Derivative, FisherMatrix.update_fm, invertSVD, sky_localization_area,   *)
(* compute_network_errors, output_to_txt_file and analyze_and_save_to_txt. *)
(*                                                                         *)
(* Conventions.  Python's 0-based positions are kept for the ids of        *)
(* sub_network_ids; sequences of the model are 1-based, so position i of   *)
(* the code is position i+1 here.  Real numbers are exact: a rational is a *)
(* pair <<num, den>> in lowest terms with den > 0, NaN is <<0, 0>>, and    *)
(* the square root of x is the record [radicand |-> x].  The values of the *)
(* Derivative are fixed-point numbers counted in units of 1/Scale.         *)
(***************************************************************************)
EXTENDS Integers, Sequences, FiniteSets, TLC

\* ------------------------------------------------------------------ bounds

\* The largest catalog (number of signals) explored.
MaxSignals == 2

\* The largest number of fisher parameters update_fm is run on.
MaxParams == 3

\* The largest number of with_respect_to calls made on one Derivative.
MaxCalls == 3

\* The largest number of runs of update_fm on one FisherMatrix.
MaxUpdates == 2

\* The largest number of calls made on the Derivative of a FisherMatrix
\* from outside update_fm.
MaxOutsideCalls == 1

\* ------------------------------------------------------- exact arithmetic

Abs(x) == IF x < 0 THEN -x ELSE x

Max(a, b) == IF a >= b THEN a ELSE b

RECURSIVE GCD(_, _)
GCD(a, b) == IF b = 0 THEN a ELSE GCD(b, a % b)

NaN == <<0, 0>>

IsNaN(q) == q[2] = 0

\* The rational n/d in lowest terms; x/0 is NaN (the code only ever forms 0/0).
Rat(n, d) ==
    IF d = 0 THEN NaN
    ELSE LET g == GCD(Abs(n), Abs(d))
             s == IF d < 0 THEN -1 ELSE 1
         IN  <<(s * n) \div g, (s * d) \div g>>

RatMul(p, q) == IF IsNaN(p) \/ IsNaN(q) THEN NaN ELSE Rat(p[1] * q[1], p[2] * q[2])

RatSub(p, q) ==
    IF IsNaN(p) \/ IsNaN(q) THEN NaN ELSE Rat(p[1] * q[2] - q[1] * p[2], p[2] * q[2])

\* np.sqrt(x), kept exact as the root of its radicand.
Sqrt(x) == [radicand |-> x]

\* np.sqrt(x) > t for an integer x >= 0 and an integer t.
SqrtGreater(x, t) == t < 0 \/ x > t * t

\* np.zeros((n, n))
Zeros(n) == [i \in 1..n |-> [j \in 1..n |-> 0]]

MatAdd(A, B) == [i \in 1..Len(A) |-> [j \in 1..Len(A) |-> A[i][j] + B[i][j]]]

\* list.index(x): the first position holding x (1-based here).
Index(s, x) == CHOOSE i \in 1..Len(s) : s[i] = x /\ \A j \in 1..(i - 1) : s[j] # x

Contains(s, x) == \E i \in 1..Len(s) : s[i] = x

\* ---------------------------------------------------------------- invertSVD

\* invertSVD cannot normalise a matrix with a zero on its diagonal: 0/0 is NaN.
Degenerate(M) == \E i \in 1..Len(M) : M[i][i] <= 0

\* The pseudo-inverse invertSVD returns for a symmetric positive semidefinite
\* matrix of size 1 or 2 with a positive diagonal.  The normalised matrix
\* [[1, r], [r, 1]], r = b / sqrt(a d), has the singular values 1 + |r| and
\* 1 - |r|; the second is dropped (not > 1e-10) exactly when b^2 = a d.
InvertSVD(M) ==
    IF Len(M) = 1 THEN << <<Rat(1, M[1][1])>> >>
    ELSE LET a == M[1][1]
             b == M[1][2]
             d == M[2][2]
             det == a * d - b * b
         IN  IF det = 0
             THEN << <<Rat(1, 4 * a), Rat(1, 4 * b)>>,
                     <<Rat(1, 4 * b), Rat(1, 4 * d)>> >>
             ELSE << <<Rat(d, det), Rat(-b, det)>>,
                     <<Rat(-b, det), Rat(a, det)>> >>

\* What invertSVD returns when np.linalg.svd is handed a matrix holding NaN
\* and does not raise: no singular value passes the threshold (kVal = 0), the
\* normalised inverse is the zero matrix, and it is divided by the
\* normalizer, which is 0 where either diagonal entry is: 0/0 there, 0 elsewhere.
NaNMatrix(M) ==
    [i \in 1..Len(M) |-> [j \in 1..Len(M) |-> Rat(0, M[i][i] * M[j][j])]]

\* np.sqrt(np.diagonal(network_fisher_inverse))
DiagonalErrors(inv) == [i \in 1..Len(inv) |-> Sqrt(inv[i][i])]

\* The entries of the inverse are floats that carry the rounding of the svd.
\* A difference of products of them whose exact value is not 0 keeps its
\* sign; one whose exact value is 0 comes out as the rounding error itself,
\* which is negative, zero or positive depending on the last bits the svd
\* returns.
RoundingErrors == {-1, 0, 1}

\* A positive number of the size of the rounding error.
PositiveRoundingError == <<0, -1>>

\* The float the difference with exact value x is computed as; np.sqrt of
\* a negative number is nan.
Rounded(x, rounding) ==
    IF IsNaN(x) \/ x[1] # 0 THEN x
    ELSE IF rounding < 0 THEN NaN
    ELSE IF rounding > 0 THEN PositiveRoundingError
    ELSE x

\* pi * |cos(declination_angle)| * sqrt(inv[ra,ra] inv[dec,dec] - inv[ra,dec]^2):
\* the transcendental factor is kept as the declination it is taken at.
sky_localization_area(inv, declination_angle, i_ra, i_dec, rounding) ==
    [declination_angle |-> declination_angle,
     area |-> Sqrt(Rounded(RatSub(RatMul(inv[i_ra][i_ra], inv[i_dec][i_dec]),
                                  RatMul(inv[i_ra][i_dec], inv[i_ra][i_dec])),
                           rounding))]

\* ------------------------------------------------------------------ inputs

\* The detectors a network is built from, in the network's order.
AllDetectors == <<"ET", "CE">>

\* network.detectors of the networks explored: the non-empty prefixes.
DetectorLists == {SubSeq(AllDetectors, 1, n) : n \in 1..Len(AllDetectors)}

\* network.detection_SNR: (individual threshold, network threshold).
DetectionSNRValues == {<<3, 5>>, <<4, 8>>}

\* The population the catalogs are cut from: one row of parameter values
\* per signal, all rows different.  A row holds every column the code reads:
\* geocent_time (Derivative.__init__) and each fisher parameter explored.
Population ==
    [k \in 1..(MaxSignals + 1) |->
        [ra |-> k, dec |-> 0 - k, psi |-> 2 * k, luminosity_distance |-> 10 * k,
         geocent_time |-> 1000 * k]]

\* parameter_values: a catalog of n signals, n = 0 included.
Catalogs == {SubSeq(Population, 1, n) : n \in 0..MaxSignals}

\* fisher_parameters: with and without the two sky parameters, in both
\* orders, and the empty list.
FisherParameterLists ==
    {<<>>, <<"luminosity_distance">>, <<"dec">>, <<"ra", "dec">>, <<"dec", "ra">>,
     <<"ra", "psi">>}

\* What compute_detector_fisher returns for one detector and one signal is
\* decided by the waveform, projection and noise of the detector, which are
\* inputs here: the detector's SNR squared and the kind of its Fisher matrix.
DetectorResults ==
    {[snr_square |-> 9, kind |-> "A"], [snr_square |-> 16, kind |-> "B"],
     [snr_square |-> 16, kind |-> "C"], [snr_square |-> 64, kind |-> "D"]}

\* The Fisher matrices of the four kinds: symmetric and positive
\* semidefinite.  Kinds A, B and C have a positive diagonal, and kind C is
\* singular for every pair of parameters; kind D is of a detector whose
\* signal does not depend on dec (a zero row and column there).
FisherEntry(kind, p, q) ==
    IF p = q
    THEN (IF kind = "A" THEN (IF p = "dec" THEN 2 ELSE 1)
          ELSE IF kind = "B" THEN (IF p = "dec" THEN 1 ELSE 2)
          ELSE IF kind = "C" THEN 1
          ELSE (IF p = "dec" THEN 0 ELSE 1))
    ELSE (IF kind \in {"A", "D"} THEN 0 ELSE 1)

FisherOfKind(kind, params) ==
    [i \in 1..Len(params) |-> [j \in 1..Len(params) |-> FisherEntry(kind, params[i], params[j])]]

\* The absent third result, and a present one.
None == [is_none |-> TRUE, array |-> <<>>]

Array(a) == [is_none |-> FALSE, array |-> a]

NoResult == [returned |-> FALSE, network_snr |-> <<>>, parameter_errors |-> <<>>,
             sky_localization |-> None]

\* ------------------------------------------------------------------- state

VARIABLES
    \* compute_network_errors: arguments
    network,              \* [detectors, detection_SNR]
    parameter_values,     \* the catalog, one row per signal
    fisher_parameters,
    detector_response,    \* [signal -> [detector name -> DetectorResults]]
    \* compute_network_errors: locals
    pc,
    signals_havesky, i_ra, i_dec,
    parameter_errors, sky_localization, network_snr,
    k, d,
    network_fisher_matrix, network_snr_square,
    result,
    \* compute_network_errors: what it did
    inverted,             \* the matrix handed to invertSVD, per signal
    evaluations,          \* calls of compute_detector_fisher
    sky_calls,            \* calls of sky_localization_area
    \* analyze_and_save_to_txt
    an_pc, an_network, sub_network_ids_list, it, partial_network, files,
    \* Derivative and FisherMatrix
    dv, fm

argVars == <<network, parameter_values, fisher_parameters, detector_response>>

cneVars == <<pc, signals_havesky, i_ra, i_dec, parameter_errors, sky_localization,
             network_snr, k, d, network_fisher_matrix, network_snr_square, result,
             inverted, evaluations, sky_calls>>

anVars == <<an_pc, an_network, sub_network_ids_list, it, partial_network, files>>

vars == <<argVars, cneVars, anVars, dv, fm>>

\* --------------------------------------------------- compute_detector_fisher

\* (detector_fisher, detector_snr_square) of one detector for signal sig.
\* The FisherMatrix and the Derivative built here are private to the call.
compute_detector_fisher(detector, sig, params) ==
    [fisher |-> FisherOfKind(detector_response[sig][detector].kind, params),
     snr_square |-> detector_response[sig][detector].snr_square]

\* --------------------------------------------------- compute_network_errors

\* A variant that forgets the assertion on the catalog.
PreconditionsHold_ParamsOnly(n_params, n_signals) == n_params > 0

\* assert n_params > 0; assert n_signals > 0
PreconditionsHold(n_params, n_signals) == n_params > 0 /\ n_signals > 0

\* ("ra" in fisher_parameters) and ("dec" in fisher_parameters)
HaveSky(params) == Contains(params, "ra") /\ Contains(params, "dec")

\* network_snr_square += detector_snr_square
AddSnrSquare(acc, detector_snr_square) == acc + detector_snr_square

\* A variant that lets a detector exactly at the individual threshold in.
AddFisher_AtThreshold(acc, detector_fisher, detector_snr_square, detector_snr_thr) ==
    IF detector_snr_square >= detector_snr_thr * detector_snr_thr
    THEN MatAdd(acc, detector_fisher)
    ELSE acc

\* if np.sqrt(detector_snr_square) > detector_snr_thr: network_fisher_matrix += detector_fisher
AddFisher(acc, detector_fisher, detector_snr_square, detector_snr_thr) ==
    IF SqrtGreater(detector_snr_square, detector_snr_thr)
    THEN MatAdd(acc, detector_fisher)
    ELSE acc

\* A variant that carries the accumulator over from the previous signal.
FreshSnrSquare_CarriedOver(previous) == previous

\* The accumulators a signal starts from.
FreshSnrSquare(previous) == 0

FreshFisherMatrix(previous, n_params) == Zeros(n_params)

\* A variant that keeps a signal exactly at the network threshold.
RECURSIVE Where_AtThreshold(_, _, _)
Where_AtThreshold(snr, thr, from) ==
    IF from > Len(snr) THEN <<>>
    ELSE (IF snr[from].radicand >= thr * thr THEN <<from>> ELSE <<>>)
         \o Where_AtThreshold(snr, thr, from + 1)

\* detected, = np.where(network_snr > network_snr_thr): the positions, ascending.
RECURSIVE Where(_, _, _)
Where(snr, thr, from) ==
    IF from > Len(snr) THEN <<>>
    ELSE (IF SqrtGreater(snr[from].radicand, thr) THEN <<from>> ELSE <<>>)
         \o Where(snr, thr, from + 1)

\* array[detected]
Take(array, detected) == [i \in 1..Len(detected) |-> array[detected[i]]]

\* A variant that returns an array of zeros where the sky parameters are missing.
ReturnValue_Zeros(havesky, snr, errors, sky, detected) ==
    [returned |-> TRUE,
     network_snr |-> [i \in 1..Len(detected) |-> snr[detected[i]]],
     parameter_errors |-> [i \in 1..Len(detected) |-> errors[detected[i]]],
     sky_localization |->
         IF havesky THEN Array([i \in 1..Len(detected) |-> sky[detected[i]]])
         ELSE Array([i \in 1..Len(detected) |->
                        [declination_angle |-> 0, area |-> Sqrt(Rat(0, 1))]])]

\* The tuple returned: the third entry is None without sky parameters.
ReturnValue(havesky, snr, errors, sky, detected) ==
    [returned |-> TRUE,
     network_snr |-> Take(snr, detected),
     parameter_errors |-> Take(errors, detected),
     sky_localization |-> IF havesky THEN Array(Take(sky, detected)) ELSE None]

\* Lines 267-284: the assertions, the sky flag and the zeroed result arrays.
Enter ==
    /\ pc = "call"
    /\ LET n_params == Len(fisher_parameters)
           n_signals == Len(parameter_values)
       IN  IF ~PreconditionsHold(n_params, n_signals)
           THEN /\ pc' = "AssertionError"
                /\ UNCHANGED <<signals_havesky, i_ra, i_dec, parameter_errors,
                               sky_localization, network_snr, k>>
           ELSE /\ pc' = "signal"
                /\ signals_havesky' = HaveSky(fisher_parameters)
                /\ i_ra' = IF signals_havesky' THEN Index(fisher_parameters, "ra") ELSE 0
                /\ i_dec' = IF signals_havesky' THEN Index(fisher_parameters, "dec") ELSE 0
                /\ parameter_errors' =
                       [s \in 1..n_signals |-> [p \in 1..n_params |-> Sqrt(Rat(0, 1))]]
                /\ sky_localization' =
                       IF signals_havesky'
                       THEN [s \in 1..n_signals |->
                                [declination_angle |-> 0, area |-> Sqrt(Rat(0, 1))]]
                       ELSE <<>>
                /\ network_snr' = [s \in 1..n_signals |-> Sqrt(0)]
                /\ k' = 1
    /\ UNCHANGED <<d, network_fisher_matrix, network_snr_square, result, inverted,
                   evaluations, sky_calls>>
    /\ UNCHANGED <<argVars, anVars, dv, fm>>

\* Lines 286-291: the next signal starts from empty accumulators.
BeginSignal ==
    /\ pc = "signal"
    /\ k <= Len(parameter_values)
    /\ network_fisher_matrix' = FreshFisherMatrix(network_fisher_matrix, Len(fisher_parameters))
    /\ network_snr_square' = FreshSnrSquare(network_snr_square)
    /\ d' = 1
    /\ pc' = "detector"
    /\ UNCHANGED <<signals_havesky, i_ra, i_dec, parameter_errors, sky_localization,
                   network_snr, k, result, inverted, evaluations, sky_calls>>
    /\ UNCHANGED <<argVars, anVars, dv, fm>>

\* Lines 293-300: one detector of the network.
DetectorStep ==
    /\ pc = "detector"
    /\ d <= Len(network.detectors)
    /\ LET r == compute_detector_fisher(network.detectors[d], k, fisher_parameters)
       IN  /\ network_snr_square' = AddSnrSquare(network_snr_square, r.snr_square)
           /\ network_fisher_matrix' =
                  AddFisher(network_fisher_matrix, r.fisher, r.snr_square,
                            network.detection_SNR[1])
    /\ d' = d + 1
    /\ evaluations' = evaluations + 1
    /\ UNCHANGED <<pc, signals_havesky, i_ra, i_dec, parameter_errors, sky_localization,
                   network_snr, k, result, inverted, sky_calls>>
    /\ UNCHANGED <<argVars, anVars, dv, fm>>

\* Lines 302-310 with network_fisher_inverse given: the signal's row of each array.
Record(network_fisher_inverse, rounding) ==
    /\ parameter_errors' = [parameter_errors EXCEPT ![k] = DiagonalErrors(network_fisher_inverse)]
    /\ network_snr' = [network_snr EXCEPT ![k] = Sqrt(network_snr_square)]
    /\ IF signals_havesky
       THEN /\ sky_localization' =
                   [sky_localization EXCEPT ![k] =
                       sky_localization_area(network_fisher_inverse,
                                             parameter_values[k].dec, i_ra, i_dec,
                                             rounding)]
            /\ sky_calls' = sky_calls + 1
       ELSE UNCHANGED <<sky_localization, sky_calls>>
    /\ k' = k + 1
    /\ pc' = "signal"

\* Lines 302-310: invert the network matrix and record the signal.  A matrix
\* with a zero on its diagonal (no detector above the individual threshold,
\* or none that depends on a parameter) normalises to NaN; np.linalg.svd
\* then raises LinAlgError or, depending on the LAPACK build, returns NaN,
\* and both outcomes are kept.  So is the rounding the svd leaves in the
\* inverse of a singular matrix, which decides the sky area.
FinishSignal ==
    /\ pc = "detector"
    /\ d > Len(network.detectors)
    /\ inverted' = Append(inverted, network_fisher_matrix)
    /\ \/ /\ ~Degenerate(network_fisher_matrix)
          /\ \E rounding \in RoundingErrors :
                 Record(InvertSVD(network_fisher_matrix), rounding)
       \/ /\ Degenerate(network_fisher_matrix)
          /\ \E rounding \in RoundingErrors :
                 Record(NaNMatrix(network_fisher_matrix), rounding)
       \/ /\ Degenerate(network_fisher_matrix)
          /\ pc' = "LinAlgError"
          /\ UNCHANGED <<parameter_errors, network_snr, sky_localization, sky_calls, k>>
    /\ UNCHANGED <<signals_havesky, i_ra, i_dec, d, network_fisher_matrix,
                   network_snr_square, result, evaluations>>
    /\ UNCHANGED <<argVars, anVars, dv, fm>>

\* Lines 312-321: keep the signals above the network threshold and return.
Select ==
    /\ pc = "signal"
    /\ k > Len(parameter_values)
    /\ LET detected == Where(network_snr, network.detection_SNR[2], 1)
       IN  result' = ReturnValue(signals_havesky, network_snr, parameter_errors,
                                 sky_localization, detected)
    /\ pc' = "done"
    /\ UNCHANGED <<signals_havesky, i_ra, i_dec, parameter_errors, sky_localization,
                   network_snr, k, d, network_fisher_matrix, network_snr_square,
                   inverted, evaluations, sky_calls>>
    /\ UNCHANGED <<argVars, anVars, dv, fm>>

\* compute_network_errors, step by step.
ComputeNetworkErrors == Enter \/ BeginSignal \/ DetectorStep \/ FinishSignal \/ Select

\* The locals of a call of compute_network_errors that has not started.
CallState ==
    /\ pc = "call"
    /\ signals_havesky = FALSE /\ i_ra = 0 /\ i_dec = 0
    /\ parameter_errors = <<>> /\ sky_localization = <<>> /\ network_snr = <<>>
    /\ k = 0 /\ d = 0
    /\ network_fisher_matrix = <<>> /\ network_snr_square = 0
    /\ result = NoResult
    /\ inverted = <<>> /\ evaluations = 0 /\ sky_calls = 0

\* A new call: the locals of the previous one are gone.
NewCall ==
    /\ pc' = "call"
    /\ signals_havesky' = FALSE /\ i_ra' = 0 /\ i_dec' = 0
    /\ parameter_errors' = <<>> /\ sky_localization' = <<>> /\ network_snr' = <<>>
    /\ k' = 0 /\ d' = 0
    /\ network_fisher_matrix' = <<>> /\ network_snr_square' = 0
    /\ result' = NoResult
    /\ inverted' = <<>> /\ evaluations' = 0 /\ sky_calls' = 0

\* The results of compute_detector_fisher for a catalog and a list of detectors.
Responses(catalog, detectors) ==
    [1..Len(catalog) -> [{detectors[i] : i \in 1..Len(detectors)} -> DetectorResults]]

\* A direct call of compute_network_errors.
InitNet ==
    /\ network \in [detectors : DetectorLists, detection_SNR : DetectionSNRValues]
    /\ parameter_values \in Catalogs
    /\ fisher_parameters \in FisherParameterLists
    /\ detector_response \in Responses(parameter_values, network.detectors)
    /\ CallState
    /\ an_pc = "none" /\ an_network = network /\ sub_network_ids_list = <<>>
    /\ it = 0 /\ partial_network = network /\ files = <<>>
    /\ dv = <<>> /\ fm = <<>>

NextNet == ComputeNetworkErrors

SpecNet == InitNet /\ [][NextNet]_vars

\* --------------------------------------------------- analyze_and_save_to_txt

\* sub_network_ids_list of the calls explored (0-based ids, as in the code).
SubNetworkIdsLists == {<< <<0>>, <<0, 1>> >>, << <<1>> >>, << <<0, 1>> >>}

PopulationName == "BBH"

\* parameter_values.keys(): the columns of the catalog, in order.
CatalogColumns == <<"ra", "dec", "psi", "luminosity_distance", "geocent_time">>

\* network.partial(sub_network_ids): the detectors selected by the ids, with
\* the thresholds of the network.
Partial(net, sub_network_ids) ==
    [detectors |-> [i \in 1..Len(sub_network_ids) |-> net.detectors[sub_network_ids[i] + 1]],
     detection_SNR |-> net.detection_SNR]

\* errors_file_name: "Errors_" + the detector names joined by "_" + "_" +
\* population_name + "_SNR" + str(network.detection_SNR[1]), kept in parts.
errors_file_name(net, sub_network_ids, population_name) ==
    [prefix |-> "Errors",
     sub_network |-> [i \in 1..Len(sub_network_ids) |-> net.detectors[sub_network_ids[i] + 1]],
     population_name |-> population_name,
     snr |-> net.detection_SNR[2]]

\* The network compute_network_errors is called with (network=network).
NetworkPassed(net, partial) == net

\* output_to_txt_file up to np.savetxt: the header and save_data.  np.c_
\* joins network_snr, parameter_values and parameter_errors (and the sky
\* areas) column-wise and raises ValueError unless all have the same number
\* of rows.  A row of save_data keeps its column groups apart.
output_to_txt_file(values, snr, errors, sky, params, filename) ==
    IF Len(snr) # Len(values) \/ Len(errors) # Len(values)
       \/ (~sky.is_none /\ Len(sky.array) # Len(values))
    THEN [raised |-> TRUE, filename |-> filename, header |-> <<>>, save_data |-> <<>>]
    ELSE [raised |-> FALSE,
          filename |-> filename,
          header |-> <<[prefix |-> "", name |-> "network_SNR"]>>
                     \o [i \in 1..Len(CatalogColumns) |-> [prefix |-> "", name |-> CatalogColumns[i]]]
                     \o [i \in 1..Len(params) |-> [prefix |-> "err_", name |-> params[i]]]
                     \o (IF sky.is_none THEN <<>>
                         ELSE <<[prefix |-> "err_", name |-> "sky_location"]>>),
          save_data |-> [i \in 1..Len(values) |->
                            [network_snr |-> snr[i],
                             parameter_values |-> values[i],
                             parameter_errors |-> errors[i],
                             sky_localization |->
                                 IF sky.is_none THEN <<>> ELSE <<sky.array[i]>>]]]

\* Lines 397-406: the next sub-network; compute_network_errors is called.
AnalyzeCall ==
    /\ an_pc = "loop"
    /\ it <= Len(sub_network_ids_list)
    /\ partial_network' = Partial(an_network, sub_network_ids_list[it])
    /\ network' = NetworkPassed(an_network, partial_network')
    /\ NewCall
    /\ an_pc' = "computing"
    /\ UNCHANGED <<parameter_values, fisher_parameters, detector_response>>
    /\ UNCHANGED <<an_network, sub_network_ids_list, it, files, dv, fm>>

\* Lines 408-421: name the file and write the report of the call's results.
AnalyzeOutput ==
    /\ an_pc = "computing"
    /\ pc = "done"
    /\ LET filename == errors_file_name(an_network, sub_network_ids_list[it], PopulationName)
           out == output_to_txt_file(parameter_values, result.network_snr,
                                     result.parameter_errors, result.sky_localization,
                                     fisher_parameters, filename)
       IN  IF out.raised
           THEN /\ an_pc' = "ValueError"
                /\ UNCHANGED <<files, it>>
           ELSE /\ files' = Append(files, out)
                /\ it' = it + 1
                /\ an_pc' = "loop"
    /\ UNCHANGED <<an_network, sub_network_ids_list, partial_network>>
    /\ UNCHANGED <<argVars, cneVars, dv, fm>>

\* An exception of compute_network_errors ends analyze_and_save_to_txt.
AnalyzeRaise ==
    /\ an_pc = "computing"
    /\ pc \in {"AssertionError", "LinAlgError"}
    /\ an_pc' = pc
    /\ UNCHANGED <<an_network, sub_network_ids_list, it, partial_network, files>>
    /\ UNCHANGED <<argVars, cneVars, dv, fm>>

\* The loop over sub_network_ids_list is over.
AnalyzeReturn ==
    /\ an_pc = "loop"
    /\ it > Len(sub_network_ids_list)
    /\ an_pc' = "returned"
    /\ UNCHANGED <<an_network, sub_network_ids_list, it, partial_network, files>>
    /\ UNCHANGED <<argVars, cneVars, dv, fm>>

\* A call of analyze_and_save_to_txt on a network of all the detectors.
InitAnalyze ==
    /\ an_network \in [detectors : {AllDetectors}, detection_SNR : DetectionSNRValues]
    /\ network = an_network
    /\ parameter_values \in Catalogs
    /\ fisher_parameters \in FisherParameterLists
    /\ detector_response \in Responses(parameter_values, an_network.detectors)
    /\ sub_network_ids_list \in SubNetworkIdsLists
    /\ CallState
    /\ an_pc = "loop" /\ it = 1 /\ partial_network = an_network /\ files = <<>>
    /\ dv = <<>> /\ fm = <<>>

NextAnalyze ==
    \/ AnalyzeCall
    \/ an_pc = "computing" /\ ComputeNetworkErrors
    \/ AnalyzeOutput
    \/ AnalyzeRaise
    \/ AnalyzeReturn

SpecAnalyze == InitAnalyze /\ [][NextAnalyze]_vars

\* ---------------------------------------------------------------- Derivative

\* eps = 1e-5 = 1 / EpsInverse.
EpsInverse == 100000

\* Parameter values are counted in units of 1/Scale, a quarter of eps, so
\* that eps * pv and dp / 2 are exact for the central values explored
\* (multiples of 1/2).
Scale == 4 * EpsInverse

Eps == Scale \div EpsInverse

\* The value h/2.
Half(h) == h * (Scale \div 2)

\* self.eps * pv
EpsTimes(pv) == pv \div EpsInverse

\* The parameters of a signal the Derivative is built for.
ParamNames == {"mass_1", "dec", "luminosity_distance", "geocent_time", "phase"}

\* The central values explored: a mass below and above 1, a declination on
\* both sides of 0 and of magnitude below and above 1.
ParameterSets ==
    {[n \in ParamNames |->
         CASE n = "mass_1" -> m
           [] n = "dec" -> dc
           [] n = "luminosity_distance" -> Half(200)
           [] n = "geocent_time" -> Half(2000)
           [] n = "phase" -> 0] :
     m \in {Half(1), Half(6)}, dc \in {Half(-3), Half(-1), Half(3)}}

NoParams == [n \in ParamNames |-> 0]

\* waveform_class(waveform, parameters, data_params): the waveform model
\* holding its parameters; calling it gives the strain and t_of_f at them.
WaveformObject(parameters) == [gw_params |-> parameters]

\* det.projection(parameters, detector, wave, t_of_f + shift): the projected
\* signal, as the arguments it was computed from.
Projection(parameters, wave, shift) ==
    [parameters |-> parameters, wave |-> wave, t_of_f_shift |-> shift]

NoWave == [cached |-> FALSE, wave |-> WaveformObject(NoParams)]

NoProjection == [cached |-> FALSE, signal |-> Projection(NoParams, WaveformObject(NoParams), 0)]

NoDerivative ==
    [wrt |-> "", method |-> "", dp |-> 0, phase_factor_tc |-> 0,
     central |-> NoProjection.signal, signal1 |-> NoProjection.signal,
     signal2 |-> NoProjection.signal]

\* Derivative.__init__
NewDerivative(parameters) ==
    [pc |-> "idle",
     parameters |-> parameters,
     eps |-> Eps,
     waveform_object |-> WaveformObject(parameters),
     waveform_at_parameters |-> NoWave,
     projection_at_parameters |-> NoProjection,
     local_params |-> parameters,
     pv_set1 |-> parameters,
     pv_set2 |-> parameters,
     tc |-> parameters["geocent_time"],
     target |-> "", dp |-> 0,
     wave1 |-> WaveformObject(NoParams), wave2 |-> WaveformObject(NoParams),
     derivative |-> NoDerivative,
     calls |-> 0]

\* The property waveform_at_parameters: computed on first use, then cached.
WithWaveform(s) ==
    IF s.waveform_at_parameters.cached THEN s
    ELSE [s EXCEPT !.waveform_at_parameters = [cached |-> TRUE, wave |-> s.waveform_object]]

\* The property projection_at_parameters: computed on first use, then cached.
WithProjection(s) ==
    IF s.projection_at_parameters.cached THEN s
    ELSE LET w == WithWaveform(s)
         IN  [w EXCEPT !.projection_at_parameters =
                 [cached |-> TRUE,
                  signal |-> Projection(w.local_params, w.waveform_at_parameters.wave, 0)]]

\* What the two public setters may be handed between calls: None, or a
\* waveform or projection computed elsewhere, at other parameter values.
ForeignParameters ==
    [n \in ParamNames |->
        CASE n = "mass_1" -> Half(18)
          [] n = "dec" -> Half(18)
          [] n = "luminosity_distance" -> Half(200)
          [] n = "geocent_time" -> Half(2000)
          [] n = "phase" -> 0]

WaveformData ==
    {NoWave, [cached |-> TRUE, wave |-> WaveformObject(ForeignParameters)]}

ProjectionData ==
    {NoProjection,
     [cached |-> TRUE,
      signal |-> Projection(ForeignParameters, WaveformObject(ForeignParameters), 0)]}

\* The setter of waveform_at_parameters.
SetWaveformAtParameters(s, new_waveform_data) ==
    [s EXCEPT !.waveform_at_parameters = new_waveform_data]

\* The setter of projection_at_parameters.
SetProjectionAtParameters(s, new_projection_data) ==
    [s EXCEPT !.projection_at_parameters = new_projection_data]

\* dp = np.maximum(self.eps, self.eps * pv)
StepSize(eps, pv) == Max(eps, EpsTimes(pv))

\* A variant that perturbs the central values themselves: pv_set1 is
\* local_params, not a copy of it.
PerturbedCopies_Aliased(local_params, target, pv, dp) ==
    [local_params |-> [local_params EXCEPT ![target] = pv - dp \div 2],
     pv_set1 |-> [local_params EXCEPT ![target] = pv - dp \div 2],
     pv_set2 |-> [local_params EXCEPT ![target] = pv + dp \div 2]]

\* Lines 114-117: two copies of the central values, perturbed at the target.
PerturbedCopies(local_params, target, pv, dp) ==
    [local_params |-> local_params,
     pv_set1 |-> [local_params EXCEPT ![target] = pv - dp \div 2],
     pv_set2 |-> [local_params EXCEPT ![target] = pv + dp \div 2]]

\* Lines 103-140: with_respect_to up to the two perturbed waveforms.  The
\* analytic and the projection-only derivatives are complete here.
DerivativeBegin(s0, target) ==
    LET s == [s0 EXCEPT !.pc = "called", !.target = target, !.calls = @ + 1]
    IN  IF target \in {"luminosity_distance", "geocent_time", "phase"}
        THEN LET p == WithProjection(s)
             IN  [p EXCEPT !.derivative =
                     [NoDerivative EXCEPT
                         !.wrt = target,
                         !.method = IF target = "luminosity_distance" THEN "-1/d * projection"
                                    ELSE IF target = "geocent_time" THEN "2j pi f * projection"
                                    ELSE "-1j * projection",
                         !.central = p.projection_at_parameters.signal]]
        ELSE LET pv == s.local_params[target]
                 dp == StepSize(s.eps, pv)
                 c == PerturbedCopies(s.local_params, target, pv, dp)
                 q == [s EXCEPT !.dp = dp, !.local_params = c.local_params,
                                !.pv_set1 = c.pv_set1, !.pv_set2 = c.pv_set2]
             IN  IF target \in {"ra", "dec", "psi"}
                 THEN LET w == WithWaveform(q)
                      IN  [w EXCEPT !.derivative =
                              [NoDerivative EXCEPT
                                  !.wrt = target,
                                  !.method = "(signal2 - signal1) / dp",
                                  !.dp = dp,
                                  !.signal1 = Projection(w.pv_set1, w.waveform_at_parameters.wave, 0),
                                  !.signal2 = Projection(w.pv_set2, w.waveform_at_parameters.wave, 0)]]
                 ELSE [q EXCEPT !.pv_set1["geocent_time"] = 0,
                                !.pv_set2["geocent_time"] = 0,
                                !.wave1 = WaveformObject([q.pv_set1 EXCEPT !["geocent_time"] = 0]),
                                !.wave2 = WaveformObject([q.pv_set2 EXCEPT !["geocent_time"] = 0])]

\* Lines 142-153: tc is put back, the perturbed waveforms are projected,
\* and the waveform model is given the central values again.
DerivativeEnd(s) ==
    LET r == IF s.target \in {"luminosity_distance", "geocent_time", "phase", "ra", "dec", "psi"}
             THEN s
             ELSE LET q == [s EXCEPT !.pv_set1["geocent_time"] = s.tc,
                                     !.pv_set2["geocent_time"] = s.tc]
                  IN  [q EXCEPT !.derivative =
                          [NoDerivative EXCEPT
                              !.wrt = s.target,
                              !.method = "exp(2j pi f tc) * (signal2 - signal1) / dp",
                              !.dp = s.dp,
                              !.phase_factor_tc = s.tc,
                              !.signal1 = Projection(q.pv_set1, s.wave1, s.tc),
                              !.signal2 = Projection(q.pv_set2, s.wave2, s.tc)]]
    IN  [r EXCEPT !.waveform_object = WaveformObject(r.local_params), !.pc = "idle"]

\* Derivative.with_respect_to (and __call__), as one call.
with_respect_to(s, target) == DerivativeEnd(DerivativeBegin(s, target))

\* A Derivative is constructed for one of the parameter sets.
InitDerivative ==
    /\ dv \in {NewDerivative(p) : p \in ParameterSets}
    /\ fm = <<>>
    /\ network = [detectors |-> <<>>, detection_SNR |-> <<0, 0>>]
    /\ parameter_values = <<>> /\ fisher_parameters = <<>> /\ detector_response = <<>>
    /\ CallState
    /\ an_pc = "none" /\ an_network = network /\ sub_network_ids_list = <<>>
    /\ it = 0 /\ partial_network = network /\ files = <<>>

\* with_respect_to is entered for some target parameter.
DerivativeCall ==
    /\ dv.pc = "idle"
    /\ dv.calls < MaxCalls
    /\ \E target \in ParamNames : dv' = DerivativeBegin(dv, target)
    /\ UNCHANGED <<argVars, cneVars, anVars, fm>>

\* with_respect_to runs to its return.
DerivativeReturn ==
    /\ dv.pc = "called"
    /\ dv' = DerivativeEnd(dv)
    /\ UNCHANGED <<argVars, cneVars, anVars, fm>>

\* Between two calls the owner reads waveform_at_parameters.
DerivativeGetWaveform ==
    /\ dv.pc = "idle"
    /\ dv' = WithWaveform(dv)
    /\ UNCHANGED <<argVars, cneVars, anVars, fm>>

\* Between two calls the owner reads projection_at_parameters.
DerivativeGetProjection ==
    /\ dv.pc = "idle"
    /\ dv' = WithProjection(dv)
    /\ UNCHANGED <<argVars, cneVars, anVars, fm>>

\* Between two calls the owner assigns waveform_at_parameters.
DerivativeSetWaveform ==
    /\ dv.pc = "idle"
    /\ \E v \in WaveformData : dv' = SetWaveformAtParameters(dv, v)
    /\ UNCHANGED <<argVars, cneVars, anVars, fm>>

\* Between two calls the owner assigns projection_at_parameters.
DerivativeSetProjection ==
    /\ dv.pc = "idle"
    /\ \E v \in ProjectionData : dv' = SetProjectionAtParameters(dv, v)
    /\ UNCHANGED <<argVars, cneVars, anVars, fm>>

NextDerivative ==
    \/ DerivativeCall \/ DerivativeReturn
    \/ DerivativeGetWaveform \/ DerivativeGetProjection
    \/ DerivativeSetWaveform \/ DerivativeSetProjection

SpecDerivative == InitDerivative /\ [][NextDerivative]_vars

\* -------------------------------------------------------------- FisherMatrix

\* The parameters a FisherMatrix is asked for, in two orders: parameters
\* that change the waveform, one that changes the projection only, and
\* analytic ones, interleaved.
FisherMatrixOrders ==
    {<<"mass_1", "phase", "dec", "luminosity_distance", "geocent_time">>,
     <<"geocent_time", "luminosity_distance", "dec", "phase", "mass_1">>}

\* fisher_parameters of the matrices explored: the first n parameters of
\* either order, n up to MaxParams, the empty list included.
FisherMatrixParameterLists ==
    {SubSeq(o, 1, n) : o \in FisherMatrixOrders, n \in 0..MaxParams}

\* An entry of np.zeros((nd, nd)).
ZeroEntry == [filled |-> FALSE, left |-> NoDerivative, right |-> NoDerivative]

\* np.sum(aux.scalar_product(deriv1, deriv2, self.detector), axis=0), as
\* the two derivatives it is the product of.
ScalarProductSum(deriv1, deriv2) == [filled |-> TRUE, left |-> deriv1, right |-> deriv2]

\* An entry of a matrix handed to the setter of fm.
HardCodedEntry == [filled |-> TRUE, left |-> NoDerivative, right |-> NoDerivative]

\* FisherMatrix.__init__: nothing is computed yet (self.fm = None).
\* derivative_calls and updates count the calls of self.derivative per
\* position and the runs of update_fm over the life of the object.
NewFisherMatrix(params) ==
    [pc |-> "new",
     fisher_parameters |-> params,
     nd |-> Len(params),
     has_fm |-> FALSE,
     fm |-> <<>>,
     p1 |-> 0, p2 |-> 0,
     deriv1 |-> NoDerivative,
     derivative_calls |-> [i \in 1..Len(params) |-> 0],
     updates |-> 0]

\* No method of the FisherMatrix is running.
FmIdle == fm.pc \in {"new", "done", "read", "set"}

\* A variant whose inner loop starts at p1 itself.
InnerStart_FromP1(p1) == p1

\* for p2 in np.arange(p1+1, self.nd): where the inner loop starts.
InnerStart(p1) == p1 + 1

\* Line 167: update_fm starts from a new matrix of zeros, whatever _fm held.
UpdateFmBegin(f) ==
    [f EXCEPT !.pc = "outer", !.has_fm = TRUE, !.p1 = 1, !.p2 = 0,
              !.deriv1 = NoDerivative,
              !.updates = @ + 1,
              !.fm = [i \in 1..f.nd |-> [j \in 1..f.nd |-> ZeroEntry]]]

\* update_fm is called directly: it has no guard.
UpdateFmStart ==
    /\ FmIdle
    /\ fm.updates < MaxUpdates
    /\ fm' = UpdateFmBegin(fm)
    /\ UNCHANGED <<argVars, cneVars, anVars, dv>>

\* The property fm (and __call__): update_fm runs if _fm is None, and
\* otherwise _fm is returned as it is.
FmGet ==
    /\ FmIdle
    /\ IF fm.has_fm
       THEN fm' = [fm EXCEPT !.pc = "read"]
       ELSE /\ fm.updates < MaxUpdates
            /\ fm' = UpdateFmBegin(fm)
    /\ UNCHANGED <<argVars, cneVars, anVars, dv>>

\* The setter of fm: None, or a hard-coded matrix.
FmSet ==
    /\ FmIdle
    /\ \/ fm' = [fm EXCEPT !.pc = "set", !.has_fm = FALSE, !.fm = <<>>]
       \/ fm' = [fm EXCEPT !.pc = "set", !.has_fm = TRUE,
                           !.fm = [i \in 1..fm.nd |-> [j \in 1..fm.nd |-> HardCodedEntry]]]
    /\ UNCHANGED <<argVars, cneVars, anVars, dv>>

\* Lines 168-171: the derivative of parameter p1 and the diagonal entry.
UpdateFmOuter ==
    /\ fm.pc = "outer"
    /\ fm.p1 <= fm.nd
    /\ dv' = with_respect_to(dv, fm.fisher_parameters[fm.p1])
    /\ fm' = [fm EXCEPT !.deriv1 = dv'.derivative,
                        !.derivative_calls[fm.p1] = @ + 1,
                        !.fm[fm.p1][fm.p1] = ScalarProductSum(dv'.derivative, dv'.derivative),
                        !.p2 = InnerStart(fm.p1),
                        !.pc = "inner"]
    /\ UNCHANGED <<argVars, cneVars, anVars>>

\* Lines 172-176: the derivative of parameter p2 and the two entries it fills.
UpdateFmInner ==
    /\ fm.pc = "inner"
    /\ fm.p2 <= fm.nd
    /\ dv' = with_respect_to(dv, fm.fisher_parameters[fm.p2])
    /\ fm' = [fm EXCEPT !.derivative_calls[fm.p2] = @ + 1,
                        !.fm[fm.p1][fm.p2] = ScalarProductSum(fm.deriv1, dv'.derivative),
                        !.fm[fm.p2][fm.p1] = ScalarProductSum(fm.deriv1, dv'.derivative),
                        !.p2 = fm.p2 + 1]
    /\ UNCHANGED <<argVars, cneVars, anVars>>

\* The inner loop is over: the next p1.
UpdateFmNext ==
    /\ fm.pc = "inner"
    /\ fm.p2 > fm.nd
    /\ fm' = [fm EXCEPT !.p1 = fm.p1 + 1, !.pc = "outer"]
    /\ UNCHANGED <<argVars, cneVars, anVars, dv>>

\* The outer loop is over: update_fm returns.
UpdateFmDone ==
    /\ fm.pc = "outer"
    /\ fm.p1 > fm.nd
    /\ fm' = [fm EXCEPT !.pc = "done"]
    /\ UNCHANGED <<argVars, cneVars, anVars, dv>>

\* The calls of self.derivative made by update_fm so far, over all positions.
RECURSIVE UpdateFmCalls(_, _)
UpdateFmCalls(f, upto) ==
    IF upto = 0 THEN 0 ELSE UpdateFmCalls(f, upto - 1) + f.derivative_calls[upto]

\* The calls made on the Derivative that update_fm did not make.
OutsideCalls == dv.calls - UpdateFmCalls(fm, fm.nd)

\* The targets of the calls from outside: one for each branch of
\* with_respect_to (new waveforms, new projections only, analytic).
OutsideTargets == {"mass_1", "dec", "phase"}

\* Between two methods of the FisherMatrix its Derivative is called from
\* outside (self.derivative is public, and callable): with_respect_to runs
\* for the target, a fisher parameter of the matrix or not.
FmDerivativeCall ==
    /\ FmIdle
    /\ OutsideCalls < MaxOutsideCalls
    /\ \E target \in OutsideTargets : dv' = with_respect_to(dv, target)
    /\ UNCHANGED <<argVars, cneVars, anVars, fm>>

\* Between two methods of the FisherMatrix its Derivative's caches are read
\* (self.derivative is public).
FmGetWaveform ==
    /\ FmIdle
    /\ dv' = WithWaveform(dv)
    /\ UNCHANGED <<argVars, cneVars, anVars, fm>>

FmGetProjection ==
    /\ FmIdle
    /\ dv' = WithProjection(dv)
    /\ UNCHANGED <<argVars, cneVars, anVars, fm>>

\* Between two methods of the FisherMatrix its Derivative's caches are assigned.
FmSetWaveform ==
    /\ FmIdle
    /\ \E v \in WaveformData : dv' = SetWaveformAtParameters(dv, v)
    /\ UNCHANGED <<argVars, cneVars, anVars, fm>>

FmSetProjection ==
    /\ FmIdle
    /\ \E v \in ProjectionData : dv' = SetProjectionAtParameters(dv, v)
    /\ UNCHANGED <<argVars, cneVars, anVars, fm>>

\* The signal a FisherMatrix is built for: one of the parameter sets, with
\* a negative declination.
FisherMatrixParameterSets ==
    {p \in ParameterSets : p["mass_1"] = Half(6) /\ p["dec"] = Half(-3)}

\* A FisherMatrix is constructed, and its Derivative with it.
InitFisherMatrix ==
    /\ dv \in {NewDerivative(p) : p \in FisherMatrixParameterSets}
    /\ fm \in {NewFisherMatrix(ps) : ps \in FisherMatrixParameterLists}
    /\ network = [detectors |-> <<>>, detection_SNR |-> <<0, 0>>]
    /\ parameter_values = <<>> /\ fisher_parameters = <<>> /\ detector_response = <<>>
    /\ CallState
    /\ an_pc = "none" /\ an_network = network /\ sub_network_ids_list = <<>>
    /\ it = 0 /\ partial_network = network /\ files = <<>>

NextFisherMatrix ==
    \/ UpdateFmStart \/ FmGet \/ FmSet
    \/ UpdateFmOuter \/ UpdateFmInner \/ UpdateFmNext \/ UpdateFmDone
    \/ FmDerivativeCall
    \/ FmGetWaveform \/ FmGetProjection
    \/ FmSetWaveform \/ FmSetProjection

SpecFisherMatrix == InitFisherMatrix /\ [][NextFisherMatrix]_vars

\* ------------------------------------------- claims: compute_network_errors

\* What the claims say of signal sig, computed from the detectors' results alone.
RECURSIVE SnrSquareOfDetectors(_, _, _)
SnrSquareOfDetectors(detectors, sig, upto) ==
    IF upto = 0 THEN 0
    ELSE SnrSquareOfDetectors(detectors, sig, upto - 1)
         + detector_response[sig][detectors[upto]].snr_square

RECURSIVE FisherOfDetectorsAbove(_, _, _, _)
FisherOfDetectorsAbove(detectors, thr, sig, upto) ==
    IF upto = 0 THEN Zeros(Len(fisher_parameters))
    ELSE LET rest == FisherOfDetectorsAbove(detectors, thr, sig, upto - 1)
             r == detector_response[sig][detectors[upto]]
         IN  IF thr < 0 \/ r.snr_square > thr * thr
             THEN MatAdd(rest, FisherOfKind(r.kind, fisher_parameters))
             ELSE rest

ExpectedSnrSquare(net, sig) == SnrSquareOfDetectors(net.detectors, sig, Len(net.detectors))

ExpectedFisher(net, sig) ==
    FisherOfDetectorsAbove(net.detectors, net.detection_SNR[1], sig, Len(net.detectors))

ExpectedInverse(net, sig) ==
    IF Degenerate(ExpectedFisher(net, sig))
    THEN NaNMatrix(ExpectedFisher(net, sig))
    ELSE InvertSVD(ExpectedFisher(net, sig))

RECURSIVE ExpectedDetected(_, _)
ExpectedDetected(net, from) ==
    IF from > Len(parameter_values) THEN <<>>
    ELSE (IF ExpectedSnrSquare(net, from) > net.detection_SNR[2] * net.detection_SNR[2]
          THEN <<from>> ELSE <<>>)
         \o ExpectedDetected(net, from + 1)

Started == pc \notin {"call", "AssertionError"}

\* C1: the network SNR recorded for a signal is the root of the sum of the
\* SNR squared of every detector of the network, included in the Fisher
\* matrix or not, and the running sum of the signal in progress holds the
\* detectors of that signal only.
C1_NetworkSnrSumsAllDetectors ==
    /\ Started =>
          \A s \in 1..(k - 1) : network_snr[s] = Sqrt(ExpectedSnrSquare(network, s))
    /\ pc = "detector" =>
          network_snr_square = SnrSquareOfDetectors(network.detectors, k, d - 1)

\* C1 witness: the second signal of a catalog is recorded, and one of its
\* detectors was left out of the Fisher matrix.
C1_Witness ==
    /\ pc = "done" /\ Len(parameter_values) >= 2 /\ Len(network.detectors) = 2
    /\ \E i \in 1..2 :
          detector_response[2][network.detectors[i]].snr_square
              <= network.detection_SNR[1] * network.detection_SNR[1]
    /\ ExpectedFisher(network, 2) # Zeros(Len(fisher_parameters))

\* C2: the matrix inverted for a signal is the sum of the Fisher matrices of
\* exactly the detectors whose own SNR is strictly above the individual
\* threshold, and the running matrix of the signal in progress holds the
\* detectors of that signal only.
C2_FisherSumsDetectorsAboveThreshold ==
    /\ \A s \in 1..Len(inverted) : inverted[s] = ExpectedFisher(network, s)
    /\ pc = "detector" =>
          network_fisher_matrix =
              FisherOfDetectorsAbove(network.detectors, network.detection_SNR[1], k, d - 1)

\* C2 witness: the second signal was inverted with one detector exactly at
\* the individual threshold (left out) and one above it (added).
C2_Witness ==
    /\ Len(inverted) >= 2 /\ Len(network.detectors) = 2
    /\ detector_response[2]["ET"].snr_square
           = network.detection_SNR[1] * network.detection_SNR[1]
    /\ detector_response[2]["CE"].snr_square
           > network.detection_SNR[1] * network.detection_SNR[1]
    /\ inverted[2] = FisherOfKind(detector_response[2]["CE"].kind, fisher_parameters)

\* The sky areas the code may compute for signal sig, one per rounding.
ExpectedSkyAreas(net, sig) ==
    {sky_localization_area(ExpectedInverse(net, sig), parameter_values[sig].dec,
                           Index(fisher_parameters, "ra"),
                           Index(fisher_parameters, "dec"), rounding) :
        rounding \in RoundingErrors}

\* C3: what is returned is, in catalog order, exactly the signals whose
\* network SNR is strictly above the network threshold, and entry i of the
\* SNRs, row i of the errors and entry i of the sky areas are those of the
\* same signal.
C3_ReturnsSignalsAboveNetworkThreshold ==
    pc = "done" =>
        LET detected == ExpectedDetected(network, 1)
        IN  /\ result.network_snr =
                   [i \in 1..Len(detected) |-> Sqrt(ExpectedSnrSquare(network, detected[i]))]
            /\ result.parameter_errors =
                   [i \in 1..Len(detected) |->
                       DiagonalErrors(ExpectedInverse(network, detected[i]))]
            /\ ~result.sky_localization.is_none =>
                   /\ Len(result.sky_localization.array) = Len(detected)
                   /\ \A i \in 1..Len(detected) :
                          result.sky_localization.array[i]
                              \in ExpectedSkyAreas(network, detected[i])

\* C3 witness: the first signal sits exactly at the network threshold and is
\* left out, the second is above it and is the only one returned.
C3_Witness ==
    /\ pc = "done" /\ Len(parameter_values) = 2
    /\ ExpectedSnrSquare(network, 1) = network.detection_SNR[2] * network.detection_SNR[2]
    /\ ExpectedSnrSquare(network, 2) > network.detection_SNR[2] * network.detection_SNR[2]
    /\ Len(result.network_snr) = 1
    /\ ~result.sky_localization.is_none

\* C4: the third result is an array, one entry per returned signal, exactly
\* when both ra and dec are fisher parameters; otherwise it is None and
\* sky_localization_area was never called.
C4_SkyLocalizationIffRaAndDec ==
    LET both == Contains(fisher_parameters, "ra") /\ Contains(fisher_parameters, "dec")
    IN  /\ ~both => sky_calls = 0
        /\ pc = "done" =>
              /\ result.sky_localization.is_none <=> ~both
              /\ both => Len(result.sky_localization.array) = Len(result.network_snr)
              /\ ~both => result.sky_localization = None

\* C4 witness: ra without dec, a signal returned, and no sky array.
C4_Witness ==
    /\ pc = "done" /\ Contains(fisher_parameters, "ra") /\ ~Contains(fisher_parameters, "dec")
    /\ Len(result.network_snr) >= 1
    /\ result.sky_localization.is_none

\* C5: the call ends in an assertion failure exactly when fisher_parameters
\* or the catalog is empty, and then no detector was evaluated and nothing
\* is returned.
C5_EmptyInputFailsAssertion ==
    /\ pc # "call" =>
          (pc = "AssertionError" <=>
              (Len(fisher_parameters) = 0 \/ Len(parameter_values) = 0))
    /\ pc = "AssertionError" => evaluations = 0 /\ result = NoResult

\* C5 witness: a parameter list that is not empty, an empty catalog, and the
\* assertion failed.
C5_Witness ==
    pc = "AssertionError" /\ Len(fisher_parameters) > 0 /\ Len(parameter_values) = 0

\* ------------------------------------------ claims: analyze_and_save_to_txt

\* The rows the report of a network holds according to the claims: one per
\* signal above the network threshold, with that signal's network SNR, its
\* parameter values and its errors.
ExpectedRows(net) ==
    LET detected == ExpectedDetected(net, 1)
    IN  [i \in 1..Len(detected) |->
            [network_snr |-> Sqrt(ExpectedSnrSquare(net, detected[i])),
             parameter_values |-> parameter_values[detected[i]],
             parameter_errors |-> DiagonalErrors(ExpectedInverse(net, detected[i]))]]

RowsOf(file) ==
    [i \in 1..Len(file.save_data) |->
        [network_snr |-> file.save_data[i].network_snr,
         parameter_values |-> file.save_data[i].parameter_values,
         parameter_errors |-> file.save_data[i].parameter_errors]]

\* C6: whenever compute_network_errors has returned, the report is written,
\* and a report holds one row per detected signal with that signal's
\* network SNR, parameter values and errors (of the network the results
\* were computed for), signals below the network threshold or not.
C6_ReportHasOneRowPerDetectedSignal ==
    /\ an_pc # "ValueError"
    /\ \A f \in 1..Len(files) : RowsOf(files[f]) = ExpectedRows(network)

\* C10: the report written under a sub-network's name holds the network SNR
\* and errors of the partial network of those ids.
C10_ReportIsOfTheSubNetwork ==
    \A f \in 1..Len(files) :
        RowsOf(files[f]) = ExpectedRows(Partial(an_network, sub_network_ids_list[f]))

\* ------------------------------------------------------- claims: Derivative

FiniteDifferenceTargets == ParamNames \ {"luminosity_distance", "geocent_time", "phase"}

\* C8: after a finite-difference call the step is max(eps, eps |theta|) for
\* every central value theta, negative ones included, and the two perturbed
\* values are theta - step/2 and theta + step/2.
C8_StepSizeUsesAbsoluteValue ==
    (dv.pc = "idle" /\ dv.target \in FiniteDifferenceTargets) =>
        LET theta == dv.parameters[dv.target]
            step == Max(Eps, EpsTimes(Abs(theta)))
        IN  /\ dv.derivative.dp = step
            /\ dv.pv_set1[dv.target] = theta - step \div 2
            /\ dv.pv_set2[dv.target] = theta + step \div 2

\* C9: at every point of every sequence of calls the central values and tc
\* are those given at construction, geocent_time included, and between
\* calls the waveform model holds the central values.
C9_CentralValuesUntouched ==
    /\ dv.local_params = dv.parameters
    /\ dv.tc = dv.parameters["geocent_time"]
    /\ dv.pc = "idle" => dv.waveform_object = WaveformObject(dv.parameters)

\* C9 witness: inside a second call, with the copies perturbed and their
\* geocent_time at 0.
C9_Witness ==
    /\ dv.pc = "called" /\ dv.calls >= 2 /\ dv.target = "mass_1"
    /\ dv.pv_set1["geocent_time"] = 0 /\ dv.pv_set2["geocent_time"] = 0
    /\ dv.pv_set1["mass_1"] # dv.parameters["mass_1"]
    /\ dv.tc # 0

\* ----------------------------------------------------- claims: FisherMatrix

AllEntriesFilled == \A i, j \in 1..fm.nd : fm.fm[i][j].filled

\* C7 as stated: when update_fm returns, all n*n entries are filled and
\* each run has made one derivative call per parameter (n calls per run),
\* whatever calls were made on the Derivative from outside.
C7_EachDerivativeOnce ==
    fm.pc = "done" =>
        /\ AllEntriesFilled
        /\ \A i \in 1..fm.nd : fm.derivative_calls[i] = fm.updates
        /\ UpdateFmCalls(fm, fm.nd) = fm.updates * fm.nd

\* C7 amended: when update_fm returns, all n*n entries are filled, and in
\* each run update_fm has differentiated the parameter at position i (from
\* 1) i times, once in the outer loop and once in the inner loop of every
\* earlier parameter: n(n+1)/2 calls per run.  Calls made on the
\* Derivative from outside are not calls of update_fm and change none of this.
C7_DerivativeCallsPerPosition ==
    fm.pc = "done" =>
        /\ AllEntriesFilled
        /\ \A i \in 1..fm.nd : fm.derivative_calls[i] = fm.updates * i
        /\ 2 * UpdateFmCalls(fm, fm.nd) = fm.updates * fm.nd * (fm.nd + 1)
        /\ dv.calls >= UpdateFmCalls(fm, fm.nd)

\* C7 witness: a second run of update_fm is done for three parameters, the
\* last of which was differentiated three times in each run, and the
\* Derivative was also called from outside.
C7_Witness ==
    /\ fm.pc = "done" /\ fm.nd = 3 /\ fm.updates = 2
    /\ fm.derivative_calls[3] = 6
    /\ fm.fm[3][1].filled /\ fm.fm[1][3] = fm.fm[3][1]
    /\ OutsideCalls = 1 /\ dv.calls = 13

====
